---- MODULE Spec2Model ----
\* Session-scoped persistence layer of smart_study_ai (src/database.py) and the
\* question-answering flow that uses it (src/main.py).
EXTENDS Integers, Sequences, FiniteSets, TLC

\* ---------------------------------------------------------------- bounds
MaxSessionId == 3       \* ids handed out by the sessions AUTOINCREMENT counter
MaxOwnerId == 2         \* the same, where sessions also own files and chats
MaxFileId == 1          \* ids handed out by the files AUTOINCREMENT counter
MaxChatId == 1          \* ids handed out by the chats AUTOINCREMENT counter
MaxClock == 1           \* seconds of CURRENT_TIMESTAMP the model lets pass
MaxContentFiles == 2    \* file ids where the files carry different texts

\* ---------------------------------------------------------------- values
NULL == <<"NULL">>                       \* SQL NULL in a TEXT column
NL == "\n"
Texts == {NULL, <<>>, <<"a">>, <<"b", "c">>}
OneText == {<<"a">>}
Paths == {"data/uploads/u1"}
Sizes == {4}
Names == {"", "A"}
OneName == {"A"}
FailPoints == {"none", "close", "remove_db", "makedirs", "_init_db"}
Questions == {"q"}
Answers == {<<"x">>}
NoRow == 0                               \* a value no AUTOINCREMENT id takes
Documents ==                             \* 10 and 9 characters once stripped
    {<<" ", "t", "e", "n", " ", "c", "h", "a", "r", "s", "!", NL>>,
     <<" ", "n", "i", "n", "e", " ", "c", "h", "r", "s", NL>>}
Streams == {<<>>, << <<>> >>, << <<"a">> >>, << <<"a">>, <<"b">> >>}
Whitespace == {" ", NL}
Threads == {1, 2}
NoThread == 0                            \* no connection holds the write lock

VARIABLES
    db,         \* committed contents of data/study_ai.db
    disk,       \* uploaded files present under data/uploads
    now,        \* CURRENT_TIMESTAMP, in seconds
    last,       \* the last store call: operation, arguments, outcome
    qa,         \* the page's question-answering turn (st.session_state and locals)
    threads,    \* what each thread is doing on its own connection
    lock,       \* the thread whose connection holds the write lock, or NoThread
    conns       \* each thread's cached connection (thread_local.connection)

storeVars == <<db, disk, now, last>>
appVars == <<qa, threads, lock, conns>>
vars == <<db, disk, now, last, qa, threads, lock, conns>>

\* ---------------------------------------------------------------- schema
NoRows == [i \in {} |-> 0]

\* The database file right after _init_db has created the three tables.
EmptyDb ==
    [schema |-> TRUE, sessions |-> NoRows, files |-> NoRows, chats |-> NoRows,
     seq |-> [sessions |-> 0, files |-> 0, chats |-> 0]]

\* A database file without tables (sqlite3.connect creates it on demand).
NoSchemaDb == [EmptyDb EXCEPT !.schema = FALSE]

ActiveIds(d) == {i \in DOMAIN d.sessions : d.sessions[i].is_active = 1}
FilesOf(d, sid) == {f \in DOMAIN d.files : d.files[f].session_id = sid}
ChatsOf(d, sid) == {c \in DOMAIN d.chats : d.chats[c].session_id = sid}

\* ---------------------------------------------------------------- statements
\* Every statement yields the working state of the transaction, whether it
\* succeeded, and the cursor's rowcount / lastrowid.
Ok(d, n) == [db |-> d, ok |-> TRUE, ret |-> n]
Raise(d) == [db |-> d, ok |-> FALSE, ret |-> NoRow]

\* UPDATE sessions SET is_active = 0
DeactivateAll(d) ==
    [d EXCEPT !.sessions = [i \in DOMAIN d.sessions |->
                               [d.sessions[i] EXCEPT !.is_active = 0]]]

\* INSERT INTO sessions (session_name, is_active) VALUES (?, ?)
InsertSession(d, name, active, t) ==
    LET id == d.seq.sessions + 1
    IN [d EXCEPT !.sessions = [i \in DOMAIN d.sessions \cup {id} |->
                                  IF i = id
                                  THEN [session_name |-> name, is_active |-> active,
                                        last_accessed |-> t]
                                  ELSE d.sessions[i]],
                 !.seq.sessions = id]

\* UPDATE sessions SET is_active = 1, last_accessed = CURRENT_TIMESTAMP WHERE id = ?
ActivateSession(d, sid, t) ==
    [d EXCEPT !.sessions = [i \in DOMAIN d.sessions |->
                               IF i = sid
                               THEN [d.sessions[i] EXCEPT !.is_active = 1,
                                                          !.last_accessed = t]
                               ELSE d.sessions[i]]]

\* TouchSession whose UPDATE lacks WHERE id = ?.
TouchSession_AllSessions(d, sid, t) ==
    [d EXCEPT !.sessions = [i \in DOMAIN d.sessions |->
                               [d.sessions[i] EXCEPT !.last_accessed = t]]]

\* UPDATE sessions SET last_accessed = CURRENT_TIMESTAMP WHERE id = ?
TouchSession(d, sid, t) ==
    [d EXCEPT !.sessions = [i \in DOMAIN d.sessions |->
                               IF i = sid
                               THEN [d.sessions[i] EXCEPT !.last_accessed = t]
                               ELSE d.sessions[i]]]

\* Cascade with the chats table's foreign key lacking ON DELETE CASCADE.
Cascade_FilesOnly(d, sid) ==
    [d EXCEPT !.files = [f \in DOMAIN d.files \ FilesOf(d, sid) |-> d.files[f]]]

\* ON DELETE CASCADE of files.session_id and chats.session_id
Cascade(d, sid) ==
    [d EXCEPT !.files = [f \in DOMAIN d.files \ FilesOf(d, sid) |-> d.files[f]],
              !.chats = [c \in DOMAIN d.chats \ ChatsOf(d, sid) |-> d.chats[c]]]

\* DELETE FROM sessions WHERE id = ?   (foreign keys are ON for the connection)
DeleteSessionRow(d, sid) ==
    LET c == Cascade(d, sid)
    IN [c EXCEPT !.sessions = [i \in DOMAIN d.sessions \ {sid} |-> d.sessions[i]]]

\* ForeignKeyOk on a connection that never ran PRAGMA foreign_keys = ON.
ForeignKeyOk_PragmaOff(d, sid) == TRUE

\* The FOREIGN KEY (session_id) REFERENCES sessions (id) check of an insert.
ForeignKeyOk(d, sid) == sid \in DOMAIN d.sessions

\* INSERT INTO files (session_id, filename, filepath, filesize, content_text, file_type)
InsertFile(d, sid, path, size, text) ==
    LET id == d.seq.files + 1
    IN IF ~ForeignKeyOk(d, sid) THEN Raise(d)
       ELSE Ok([d EXCEPT !.files = [f \in DOMAIN d.files \cup {id} |->
                                       IF f = id
                                       THEN [session_id |-> sid, filepath |-> path,
                                             filesize |-> size, content_text |-> text]
                                       ELSE d.files[f]],
                         !.seq.files = id], id)

\* INSERT INTO chats (session_id, question, answer)
InsertChat(d, sid, q, a, t) ==
    LET id == d.seq.chats + 1
    IN IF ~ForeignKeyOk(d, sid) THEN Raise(d)
       ELSE Ok([d EXCEPT !.chats = [c \in DOMAIN d.chats \cup {id} |->
                                       IF c = id
                                       THEN [session_id |-> sid, question |-> q,
                                             answer |-> a, created_at |-> t]
                                       ELSE d.chats[c]],
                         !.seq.chats = id], id)

\* ---------------------------------------------------------------- transactions
\* get_cursor that commits whatever the body did before it raised.
get_cursor_NoRollback(d0, r) ==
    [db |-> r.db, raised |-> ~r.ok, ret |-> r.ret]

\* get_cursor: commit when the body finishes, roll back and re-raise when it
\* raises.  d0 is the committed state, r the outcome of the body.
get_cursor(d0, r) ==
    [db |-> IF r.ok THEN r.db ELSE d0, raised |-> ~r.ok, ret |-> r.ret]

\* A statement on a database file that has no tables raises OperationalError.
Stmt(d, r) == IF d.schema THEN r ELSE Raise(d)

\* _ensure_active_session: insert an active 'Default Session' when no row has
\* is_active = 1.
_ensure_active_session(d, t) ==
    get_cursor(d, Stmt(d, IF ActiveIds(d) # {}
                          THEN Ok(d, NoRow)
                          ELSE Ok(InsertSession(d, "Default Session", 1, t), NoRow)))

\* _init_db: CREATE TABLE IF NOT EXISTS ..., then _ensure_active_session.
_init_db(d, t) ==
    _ensure_active_session([d EXCEPT !.schema = TRUE], t)

\* f"Session {datetime.now().strftime('%Y-%m-%d %H:%M')}": minute resolution
DefaultName(t) == "Session " \o ToString(t \div 60)

\* create_session without its UPDATE sessions SET is_active = 0.
create_session_NoDeactivate(d, name, t) ==
    LET session_name == IF name = "" THEN DefaultName(t) ELSE name
        s2 == InsertSession(d, session_name, 1, t)
    IN get_cursor(d, Stmt(d, Ok(s2, s2.seq.sessions)))

create_session(d, name, t) ==
    LET session_name == IF name = "" THEN DefaultName(t) ELSE name
        s1 == DeactivateAll(d)
        s2 == InsertSession(s1, session_name, 1, t)
    IN get_cursor(d, Stmt(d, Ok(s2, s2.seq.sessions)))

\* set_active_session without its UPDATE sessions SET is_active = 0.
set_active_session_NoDeactivate(d, sid, t) ==
    LET s2 == ActivateSession(d, sid, t)
        rowcount == IF sid \in DOMAIN d.sessions THEN 1 ELSE 0
    IN get_cursor(d, Stmt(d, Ok(s2, rowcount > 0)))

set_active_session(d, sid, t) ==
    LET s1 == DeactivateAll(d)
        s2 == ActivateSession(s1, sid, t)
        rowcount == IF sid \in DOMAIN d.sessions THEN 1 ELSE 0
    IN get_cursor(d, Stmt(d, Ok(s2, rowcount > 0)))

\* The nested get_cursor of _ensure_active_session runs on the same
\* connection: its commit commits the DELETE as well.
delete_session(d, sid, t) ==
    LET s1 == DeleteSessionRow(d, sid)
        rowcount == IF sid \in DOMAIN d.sessions THEN 1 ELSE 0
    IN IF ~d.schema THEN get_cursor(d, Raise(d))
       ELSE IF rowcount > 0
            THEN LET inner == _ensure_active_session(s1, t)
                 IN get_cursor(d, [db |-> inner.db, ok |-> ~inner.raised, ret |-> TRUE])
            ELSE get_cursor(d, Ok(s1, FALSE))

\* fault = k: the storage layer raises at the k-th statement (0: it does not)
add_file(d, sid, path, size, text, t, fault) ==
    LET s1 == IF fault = 1 THEN Raise(d) ELSE InsertFile(d, sid, path, size, text)
        s2 == IF ~s1.ok THEN s1
              ELSE IF fault = 2 THEN Raise(s1.db)
              ELSE Ok(TouchSession(s1.db, sid, t), s1.ret)
    IN get_cursor(d, Stmt(d, s2))

add_chat(d, sid, q, a, t, fault) ==
    LET s1 == IF fault = 1 THEN Raise(d) ELSE InsertChat(d, sid, q, a, t)
        s2 == IF ~s1.ok THEN s1
              ELSE IF fault = 2 THEN Raise(s1.db)
              ELSE Ok(TouchSession(s1.db, sid, t), s1.ret)
    IN get_cursor(d, Stmt(d, s2))

\* delete_file whose DELETE lacks WHERE id = ?.
delete_file_AllFiles(d, fid) ==
    LET s1 == [d EXCEPT !.files = NoRows]
    IN get_cursor(d, Stmt(d, Ok(s1, DOMAIN d.files # {})))

\* DELETE FROM files WHERE id = ?; return cursor.rowcount > 0
delete_file(d, fid) ==
    LET s1 == [d EXCEPT !.files = [f \in DOMAIN d.files \ {fid} |-> d.files[f]]]
    IN get_cursor(d, Stmt(d, Ok(s1, fid \in DOMAIN d.files)))

\* delete_session_chats whose DELETE lacks WHERE session_id = ?.
delete_session_chats_AllSessions(d, sid) ==
    LET s1 == [d EXCEPT !.chats = NoRows]
    IN get_cursor(d, Stmt(d, Ok(s1, Cardinality(DOMAIN d.chats))))

\* DELETE FROM chats WHERE session_id = ?; return cursor.rowcount
delete_session_chats(d, sid) ==
    LET s1 == [d EXCEPT !.chats = [c \in DOMAIN d.chats \ ChatsOf(d, sid) |-> d.chats[c]]]
    IN get_cursor(d, Stmt(d, Ok(s1, Cardinality(ChatsOf(d, sid)))))

\* ---------------------------------------------------------------- queries
RECURSIVE SumSizes(_, _)
SumSizes(d, S) ==
    IF S = {} THEN 0
    ELSE LET f == CHOOSE x \in S : TRUE
         IN d.files[f].filesize + SumSizes(d, S \ {f})

get_stats(d) ==
    [total_sessions |-> Cardinality(DOMAIN d.sessions),
     active_sessions |-> Cardinality(ActiveIds(d)),
     total_files |-> Cardinality(DOMAIN d.files),
     total_size |-> SumSizes(d, DOMAIN d.files),
     total_chats |-> Cardinality(DOMAIN d.chats)]

\* Every order in which a SELECT may return the rows S.
Perms(S) ==
    {o \in [1..Cardinality(S) -> S] : \A i, j \in 1..Cardinality(S) : o[i] = o[j] => i = j}

\* One row of get_all_sessions, with its two COUNT(*) subqueries.
SessionRow(d, i) ==
    [id |-> i,
     session_name |-> d.sessions[i].session_name,
     last_accessed |-> d.sessions[i].last_accessed,
     is_active |-> d.sessions[i].is_active = 1,
     file_count |-> Cardinality(FilesOf(d, i)),
     chat_count |-> Cardinality(ChatsOf(d, i))]

\* ORDER BY last_accessed DESC: rows with equal timestamps come in any order.
ByLastAccessedDesc(d) ==
    {o \in Perms(DOMAIN d.sessions) :
        \A j \in 1..(Len(o) - 1) :
            d.sessions[o[j]].last_accessed >= d.sessions[o[j + 1]].last_accessed}

\* LIMIT ?: SQLite applies no limit when the value is negative.
Limit(n, limit) == IF limit < 0 \/ limit > n THEN n ELSE limit

\* get_all_sessions with ORDER BY last_accessed ASC.
get_all_sessions_Ascending(d, limit) ==
    {[j \in 1..Limit(Len(o), limit) |-> SessionRow(d, o[Len(o) + 1 - j])] :
        o \in ByLastAccessedDesc(d)}

\* get_all_sessions: the lists the query may return.
get_all_sessions(d, limit) ==
    {[j \in 1..Limit(Len(o), limit) |-> SessionRow(d, o[j])] : o \in ByLastAccessedDesc(d)}

\* "\n\n".join(contents)
RECURSIVE Join(_)
Join(texts) ==
    IF Len(texts) = 0 THEN <<>>
    ELSE IF Len(texts) = 1 THEN texts[1]
    ELSE texts[1] \o <<NL, NL>> \o Join(Tail(texts))

\* WHERE session_id = ? AND content_text IS NOT NULL AND content_text != ''
ContentRows(d, sid) ==
    {f \in DOMAIN d.files :
        /\ d.files[f].session_id = sid
        /\ d.files[f].content_text # NULL
        /\ d.files[f].content_text # <<>>}

\* get_session_content whose WHERE clause lacks session_id = ?.
get_session_content_AllSessions(d, sid) ==
    LET rows == UNION {ContentRows(d, i) : i \in DOMAIN d.sessions}
    IN {Join([j \in 1..Len(o) |-> d.files[o[j]].content_text]) : o \in Perms(rows)}

\* get_session_content: the texts the call may return (the SELECT has no
\* ORDER BY).
get_session_content(d, sid) ==
    {Join([j \in 1..Len(o) |-> d.files[o[j]].content_text]) : o \in Perms(ContentRows(d, sid))}

\* ---------------------------------------------------------------- actions
\* last records the call just made: its name, its id argument (arg) or text
\* argument (text), whether it raised, and what it returned: an id or a row
\* count (ret), a boolean (flag) or a list or text (out).
NoCall(op) ==
    [op |-> op, arg |-> NoRow, text |-> "", raised |-> FALSE, ret |-> NoRow, flag |-> FALSE,
     out |-> <<>>]

CallInt(op, arg, text, r) ==
    /\ db' = r.db
    /\ last' = [op |-> op, arg |-> arg, text |-> text, raised |-> r.raised,
                ret |-> r.ret, flag |-> FALSE, out |-> <<>>]
    /\ UNCHANGED appVars

CallBool(op, arg, text, r) ==
    /\ db' = r.db
    /\ last' = [op |-> op, arg |-> arg, text |-> text, raised |-> r.raised,
                ret |-> NoRow, flag |-> IF r.raised THEN FALSE ELSE r.ret, out |-> <<>>]
    /\ UNCHANGED appVars

Tick ==
    /\ now < MaxClock
    /\ now' = now + 1
    /\ UNCHANGED <<db, disk, last>>
    /\ UNCHANGED appVars

CreateSession(name) ==
    /\ CallInt("create_session", NoRow, name, create_session(db, name, now))
    /\ UNCHANGED <<disk, now>>

SetActiveSession(sid) ==
    /\ CallBool("set_active_session", sid, "", set_active_session(db, sid, now))
    /\ UNCHANGED <<disk, now>>

DeleteSession(sid) ==
    /\ CallBool("delete_session", sid, "", delete_session(db, sid, now))
    /\ UNCHANGED <<disk, now>>

AddFile(sid, path, size, text, fault) ==
    /\ CallInt("add_file", sid, "", add_file(db, sid, path, size, text, now, fault))
    /\ UNCHANGED <<disk, now>>

DeleteFile(fid) ==
    /\ CallBool("delete_file", fid, "", delete_file(db, fid))
    /\ UNCHANGED <<disk, now>>

AddChat(sid, q, a, fault) ==
    /\ CallInt("add_chat", sid, "", add_chat(db, sid, q, a, now, fault))
    /\ UNCHANGED <<disk, now>>

DeleteSessionChats(sid) ==
    /\ CallInt("delete_session_chats", sid, "", delete_session_chats(db, sid))
    /\ UNCHANGED <<disk, now>>

\* A query: the database is left as it is.
Query(op, arg, results) ==
    /\ IF db.schema
       THEN \E out \in results :
               last' = [op |-> op, arg |-> arg, text |-> "", raised |-> FALSE,
                        ret |-> NoRow, flag |-> FALSE, out |-> out]
       ELSE last' = [NoCall(op) EXCEPT !.arg = arg, !.raised = TRUE]
    /\ UNCHANGED <<db, disk, now>>
    /\ UNCHANGED appVars

GetAllSessions(limit) == Query("get_all_sessions", limit, get_all_sessions(db, limit))

GetSessionContent(sid) == Query("get_session_content", sid, get_session_content(db, sid))

\* clear_all_data that re-initializes without deleting the database file.
clear_all_data_KeepFile(d, t, failAt) ==
    LET read == get_cursor(d, Stmt(d, Ok(d, NoRow)))
    IN IF read.raised \/ failAt \in {"close", "remove_db"}
       THEN [db |-> d, raised |-> FALSE, ret |-> FALSE]
       ELSE IF failAt \in {"makedirs", "_init_db"}
       THEN [db |-> NoSchemaDb, raised |-> FALSE, ret |-> FALSE]
       ELSE LET init == _init_db(d, t)
            IN [db |-> init.db, raised |-> FALSE, ret |-> ~init.raised]

\* clear_all_data.  failAt names the step that raises ("none": no step does):
\* closing the connection, os.remove(DB_FILE), os.makedirs or _init_db; the
\* SELECT of the file paths raises when the database file has no tables.  A
\* failure after os.remove(DB_FILE) leaves a database file without tables
\* behind.  kept are the uploaded files whose os.remove failed, which the inner
\* try/except ignores.
clear_all_data(d, t, failAt) ==
    LET read == get_cursor(d, Stmt(d, Ok(d, NoRow)))
    IN IF read.raised \/ failAt \in {"close", "remove_db"}
       THEN [db |-> d, raised |-> FALSE, ret |-> FALSE]
       ELSE IF failAt \in {"makedirs", "_init_db"}
       THEN [db |-> NoSchemaDb, raised |-> FALSE, ret |-> FALSE]
       ELSE LET init == _init_db(NoSchemaDb, t)
            IN [db |-> init.db, raised |-> FALSE, ret |-> ~init.raised]

FilePaths(d) == {d.files[f].filepath : f \in DOMAIN d.files}

ClearAllData(failAt, kept) ==
    /\ kept \subseteq FilePaths(db) \cap disk
    /\ CallBool("clear_all_data", NoRow, failAt, clear_all_data(db, now, failAt))
    /\ disk' = IF db.schema /\ failAt \notin {"close", "remove_db"}
               THEN (disk \ FilePaths(db)) \cup kept
               ELSE disk
    /\ UNCHANGED now

\* utils.save_uploaded_file: writes the upload under data/uploads
SaveUploadedFile(p) ==
    /\ disk' = disk \cup {p}
    /\ UNCHANGED <<db, now, last>>
    /\ UNCHANGED appVars

\* ---------------------------------------------------------------- question answering
RECURSIVE lstrip(_)
lstrip(text) ==
    IF text # <<>> /\ Head(text) \in Whitespace THEN lstrip(Tail(text)) ELSE text

RECURSIVE rstrip(_)
rstrip(text) ==
    IF text # <<>> /\ text[Len(text)] \in Whitespace
    THEN rstrip(SubSeq(text, 1, Len(text) - 1))
    ELSE text

strip(text) == rstrip(lstrip(text))

\* not (not session_content or len(session_content.strip()) < 10)
Readable(session_content) ==
    session_content # <<>> /\ Len(strip(session_content)) >= 10

\* The page between two turns.  yielded, received, cancelled, drained and
\* saved are the history of the turn: the fragments the generator has yielded
\* and their number, whether the flag was cleared after the first of them,
\* whether the generator has signalled its end, and the id of the chat row
\* the turn saved.
IdleTurn(sid) ==
    [pc |-> "idle", session |-> sid, streaming |-> FALSE, question |-> "",
     full_response |-> <<>>, stream |-> <<>>, yielded |-> <<>>, received |-> 0,
     cancelled |-> FALSE, drained |-> FALSE, saved |-> NoRow]

\* The Generate button: stream is what the model is going to yield.
Generate(question, stream) ==
    /\ qa.pc = "idle"
    /\ FilesOf(db, qa.session) # {}
    /\ \E session_content \in get_session_content(db, qa.session) :
          qa' = IF Readable(session_content)
                THEN [IdleTurn(qa.session) EXCEPT !.pc = "streaming", !.streaming = TRUE,
                                                  !.question = question, !.stream = stream]
                ELSE IdleTurn(qa.session)
    /\ UNCHANGED <<db, disk, now, last, threads, lock, conns>>

\* SaveResponse without its if full_response: test.
SaveResponse_AnyResponse(turn) ==
    \E fault \in {0, 2} :
        LET r == add_chat(db, turn.session, turn.question, turn.full_response, now, fault)
        IN /\ db' = r.db
           /\ last' = [op |-> "add_chat", arg |-> turn.session, text |-> "",
                       raised |-> r.raised, ret |-> r.ret, flag |-> FALSE, out |-> <<>>]
           /\ qa' = [turn EXCEPT !.pc = "idle", !.streaming = FALSE,
                                 !.saved = IF r.raised THEN NoRow ELSE r.ret]

\* After the loop: if full_response: db.add_chat(...); finally the flag is
\* reset.  An exception of add_chat is caught and reported.
SaveResponse(turn) ==
    \E fault \in {0, 2} :
        LET r == add_chat(db, turn.session, turn.question, turn.full_response, now, fault)
        IN IF turn.full_response # <<>>
           THEN /\ db' = r.db
                /\ last' = [op |-> "add_chat", arg |-> turn.session, text |-> "",
                            raised |-> r.raised, ret |-> r.ret, flag |-> FALSE, out |-> <<>>]
                /\ qa' = [turn EXCEPT !.pc = "idle", !.streaming = FALSE,
                                      !.saved = IF r.raised THEN NoRow ELSE r.ret]
           ELSE /\ qa' = [turn EXCEPT !.pc = "idle", !.streaming = FALSE]
                /\ UNCHANGED <<db, last>>

\* One iteration of the for loop: the generator yields a fragment, the flag
\* is looked at, and the fragment is appended unless the loop breaks.
ReceiveToken ==
    /\ qa.pc = "streaming"
    /\ qa.stream # <<>>
    /\ LET turn == [qa EXCEPT !.stream = Tail(@), !.received = @ + 1,
                              !.yielded = Append(@, Head(qa.stream))]
       IN IF qa.streaming
          THEN /\ qa' = [turn EXCEPT !.full_response = @ \o Head(qa.stream)]
               /\ UNCHANGED <<db, last>>
          ELSE SaveResponse(turn)
    /\ UNCHANGED <<disk, now, threads, lock, conns>>

\* The generator is exhausted: the loop ends.
EndOfStream ==
    /\ qa.pc = "streaming"
    /\ qa.stream = <<>>
    /\ SaveResponse([qa EXCEPT !.drained = TRUE])
    /\ UNCHANGED <<disk, now, threads, lock, conns>>

\* The generator raises: except Exception, then finally.
StreamFails ==
    /\ qa.pc = "streaming"
    /\ qa' = [qa EXCEPT !.pc = "idle", !.streaming = FALSE]
    /\ UNCHANGED <<db, disk, now, last, threads, lock, conns>>

\* The UI layer clears the flag while the turn is streaming.
ClearStreaming ==
    /\ qa.pc = "streaming"
    /\ qa.streaming
    /\ qa' = [qa EXCEPT !.streaming = FALSE, !.cancelled = qa.received >= 1]
    /\ UNCHANGED <<db, disk, now, last, threads, lock, conns>>

\* ---------------------------------------------------------------- threads
\* Each thread has its own connection (thread_local).  A connection's first
\* INSERT, UPDATE or DELETE opens a transaction and takes the database's
\* write lock; tx is what the transaction has written so far, over the state
\* committed when it began.  A SELECT outside a transaction reads the
\* committed state.
IdleThread == [pc |-> "idle", op |-> "", arg |-> NoRow, name |-> "", tx |-> NoSchemaDb]

Call(t, op, arg, name, pc) ==
    /\ threads[t].pc = "idle"
    /\ threads' = [threads EXCEPT ![t] = [IdleThread EXCEPT !.pc = pc, !.op = op,
                                                            !.arg = arg, !.name = name]]
    /\ UNCHANGED <<db, disk, now, last, qa, lock, conns>>

\* The statement that opens thread t's transaction.
Begin(t, at, d, next) ==
    /\ threads[t].pc = at
    /\ lock = NoThread
    /\ lock' = t
    /\ threads' = [threads EXCEPT ![t].pc = next, ![t].tx = d]
    /\ UNCHANGED <<db, disk, now, last, qa, conns>>

\* A later statement of thread t's transaction.
Continue(t, at, d, next) ==
    /\ threads[t].pc = at
    /\ lock = t
    /\ threads' = [threads EXCEPT ![t].pc = next, ![t].tx = d]
    /\ UNCHANGED <<db, disk, now, last, qa, lock, conns>>

\* get_cursor's conn.commit()
Commit(t, at, d) ==
    /\ threads[t].pc = at
    /\ lock = t
    /\ db' = d
    /\ lock' = NoThread
    /\ threads' = [threads EXCEPT ![t] = IdleThread]
    /\ UNCHANGED <<disk, now, last, qa, conns>>

\* UPDATE sessions SET is_active = 0, of create_session and set_active_session
UpdateAll(t) ==
    Begin(t, "update_all", DeactivateAll(db),
          IF threads[t].op = "create_session" THEN "insert" ELSE "update_one")

\* create_session's INSERT
InsertNew(t) ==
    Continue(t, "insert", InsertSession(threads[t].tx, threads[t].name, 1, now), "commit")

\* set_active_session's UPDATE ... WHERE id = ?
UpdateOne(t) ==
    Continue(t, "update_one", ActivateSession(threads[t].tx, threads[t].arg, now), "commit")

\* delete_session's DELETE
DeleteRow(t) ==
    Begin(t, "delete", DeleteSessionRow(db, threads[t].arg),
          IF threads[t].arg \in DOMAIN db.sessions THEN "ensure" ELSE "commit")

\* delete_session's _ensure_active_session: it runs in the open transaction,
\* and the commit of its own get_cursor commits the transaction.
EnsureInTransaction(t) ==
    Commit(t, "ensure", _ensure_active_session(threads[t].tx, now).db)

\* _init_db's CREATE TABLE IF NOT EXISTS and the SELECT of its
\* _ensure_active_session, which no transaction surrounds.
InitSelect(t) ==
    /\ threads[t].pc = "select"
    /\ threads' = [threads EXCEPT ![t] = IF ActiveIds(db) # {}
                                         THEN IdleThread
                                         ELSE [@ EXCEPT !.pc = "insert_default"]]
    /\ UNCHANGED <<db, disk, now, last, qa, lock, conns>>

\* ... and its INSERT of the 'Default Session'
InitInsert(t) ==
    Begin(t, "insert_default", InsertSession(db, "Default Session", 1, now), "commit")

CommitTransaction(t) == Commit(t, "commit", threads[t].tx)

\* The write lock stays with another connection for the whole busy timeout:
\* the statement raises OperationalError and get_cursor rolls back.
Busy(t) ==
    /\ threads[t].pc \in {"update_all", "delete", "insert_default"}
    /\ lock \notin {NoThread, t}
    /\ threads' = [threads EXCEPT ![t] = IdleThread]
    /\ UNCHANGED <<db, disk, now, last, qa, lock, conns>>

\* ---------------------------------------------------------------- connections
\* thread_local.connection: absent, open on the file that is at DB_FILE, or
\* open on a file that os.remove(DB_FILE) has unlinked since (file is then
\* what that file holds; SQLite refuses to write to it).
NoConnection == [state |-> "none", file |-> NoSchemaDb]
LiveConnection == [state |-> "live", file |-> NoSchemaDb]
StaleConnection(d) == [state |-> "stale", file |-> d]

\* _get_connection: the cached connection, or a new one opened on DB_FILE
_get_connection(c) == IF c.state = "none" THEN LiveConnection ELSE c

\* The database a connection reads.
Attached(c) == IF c.state = "stale" THEN c.file ELSE db

\* create_session called on thread t
ThreadCreateSession(t, name) ==
    LET c == _get_connection(conns[t])
        r == IF c.state = "stale" THEN get_cursor(db, Raise(db))
             ELSE create_session(db, name, now)
    IN /\ db' = r.db
       /\ last' = [op |-> "create_session", arg |-> t, text |-> name, raised |-> r.raised,
                   ret |-> r.ret, flag |-> FALSE, out |-> <<>>]
       /\ conns' = [conns EXCEPT ![t] = c]
       /\ UNCHANGED <<disk, now, qa, threads, lock>>

\* get_stats called on thread t
ThreadGetStats(t) ==
    LET c == _get_connection(conns[t])
        d == Attached(c)
    IN /\ last' = [op |-> "get_stats", arg |-> t, text |-> "", raised |-> ~d.schema,
                   ret |-> NoRow, flag |-> FALSE,
                   out |-> IF d.schema THEN <<get_stats(d)>> ELSE <<>>]
       /\ conns' = [conns EXCEPT ![t] = c]
       /\ UNCHANGED <<db, disk, now, qa, threads, lock>>

\* clear_all_data called on thread t: _close_connection closes t's connection
\* only; the connections other threads have cached stay open on the file that
\* os.remove(DB_FILE) unlinks.
ThreadClearAllData(t) ==
    LET c == _get_connection(conns[t])
        r == clear_all_data(Attached(c), now, "none")
    IN /\ last' = [op |-> "clear_all_data", arg |-> t, text |-> "none", raised |-> FALSE,
                   ret |-> NoRow, flag |-> r.ret, out |-> <<>>]
       /\ IF r.ret
          THEN /\ db' = r.db
               /\ disk' = disk \ FilePaths(Attached(c))
               /\ conns' = [u \in Threads |->
                              IF u = t THEN LiveConnection
                              ELSE IF conns[u].state = "live" THEN StaleConnection(db)
                              ELSE conns[u]]
          ELSE /\ conns' = [conns EXCEPT ![t] = c]
               /\ UNCHANGED <<db, disk>>
       /\ UNCHANGED <<now, qa, threads, lock>>

\* ---------------------------------------------------------------- behaviours
SessionIds == 1..MaxSessionId
FileIds == 1..MaxFileId
Faults == {0, 2}
ContentFileIds == 1..MaxContentFiles
StaleFileIds == 1..(MaxFileId + 1)
Limits == (-1)..MaxOwnerId

Init ==
    /\ db = _init_db(NoSchemaDb, 0).db
    /\ disk = {}
    /\ now = 0
    /\ last = NoCall("__init__")
    /\ qa = IdleTurn(1)
    /\ threads = [t \in Threads |-> IdleThread]
    /\ lock = NoThread
    /\ conns = [t \in Threads |-> IF t = 1 THEN LiveConnection ELSE NoConnection]

\* Session lifecycle calls, with time passing between them.
NextSessions ==
    \/ Tick
    \/ \E name \in Names :
          /\ db.seq.sessions < MaxSessionId
          /\ CreateSession(name)
    \/ \E sid \in SessionIds : SetActiveSession(sid)
    \/ \E sid \in SessionIds :
          /\ delete_session(db, sid, now).db.seq.sessions <= MaxSessionId
          /\ DeleteSession(sid)

SpecSessions == Init /\ [][NextSessions]_vars

\* Every mutating store call, one at a time.
Next ==
    \/ \E name \in OneName :
          /\ db.seq.sessions < MaxOwnerId
          /\ CreateSession(name)
    \/ \E sid \in SessionIds : SetActiveSession(sid)
    \/ \E sid \in SessionIds :
          /\ delete_session(db, sid, now).db.seq.sessions <= MaxOwnerId
          /\ DeleteSession(sid)
    \/ \E sid \in SessionIds, p \in Paths, z \in Sizes, x \in OneText, k \in Faults :
          /\ db.seq.files < MaxFileId
          /\ AddFile(sid, p, z, x, k)
    \/ \E fid \in FileIds : DeleteFile(fid)
    \/ \E sid \in SessionIds, q \in Questions, a \in Answers, k \in Faults :
          /\ db.seq.chats < MaxChatId
          /\ AddChat(sid, q, a, k)
    \/ \E sid \in SessionIds : DeleteSessionChats(sid)
    \/ \E failAt \in FailPoints, kept \in SUBSET Paths : ClearAllData(failAt, kept)

Spec == Init /\ [][Next]_vars

\* File and chat calls on a growing set of sessions, with time passing.
NextTimed ==
    \/ Tick
    \/ \E name \in OneName :
          /\ db.seq.sessions < MaxOwnerId
          /\ CreateSession(name)
    \/ \E sid \in SessionIds, p \in Paths, z \in Sizes, x \in OneText, k \in Faults :
          /\ db.seq.files < MaxFileId
          /\ AddFile(sid, p, z, x, k)
    \/ \E fid \in FileIds : DeleteFile(fid)
    \/ \E sid \in SessionIds, q \in Questions, a \in Answers, k \in Faults :
          /\ db.seq.chats < MaxChatId
          /\ AddChat(sid, q, a, k)
    \/ \E sid \in SessionIds : DeleteSessionChats(sid)

SpecTimed == Init /\ [][NextTimed]_vars

\* Listing the sessions while sessions are created and filled.
NextList ==
    \/ Tick
    \/ \E name \in OneName :
          /\ db.seq.sessions < MaxOwnerId
          /\ CreateSession(name)
    \/ \E sid \in SessionIds, p \in Paths, z \in Sizes, x \in OneText :
          /\ db.seq.files < MaxFileId
          /\ AddFile(sid, p, z, x, 0)
    \/ \E sid \in SessionIds, q \in Questions, a \in Answers :
          /\ db.seq.chats < MaxChatId
          /\ AddChat(sid, q, a, 0)
    \/ \E limit \in Limits : GetAllSessions(limit)

SpecList == Init /\ [][NextList]_vars

\* Reading a session's content while files with and without text come and go.
NextContent ==
    \/ \E name \in OneName :
          /\ db.seq.sessions < MaxOwnerId
          /\ CreateSession(name)
    \/ \E sid \in SessionIds, p \in Paths, z \in Sizes, x \in Texts :
          /\ db.seq.files < MaxContentFiles
          /\ AddFile(sid, p, z, x, 0)
    \/ \E fid \in ContentFileIds : DeleteFile(fid)
    \/ \E sid \in SessionIds : GetSessionContent(sid)

SpecContent == Init /\ [][NextContent]_vars

\* Resetting a store that holds uploads, with calls before and after.
NextReset ==
    \/ \E p \in Paths : SaveUploadedFile(p)
    \/ \E name \in OneName :
          /\ db.seq.sessions < MaxOwnerId
          /\ CreateSession(name)
    \/ \E sid \in SessionIds, p \in Paths, z \in Sizes, x \in OneText :
          /\ db.seq.files < MaxFileId
          /\ AddFile(sid, p, z, x, 0)
    \/ \E sid \in SessionIds, q \in Questions, a \in Answers :
          /\ db.seq.chats < MaxChatId
          /\ AddChat(sid, q, a, 0)
    \/ \E sid \in SessionIds : SetActiveSession(sid)
    \/ \E failAt \in FailPoints, kept \in SUBSET Paths : ClearAllData(failAt, kept)

SpecReset == Init /\ [][NextReset]_vars

\* Deleting file rows, by ids that exist and ids that do not, in a store
\* with uploads on disk, sessions and chats.
NextFiles ==
    \/ \E p \in Paths : SaveUploadedFile(p)
    \/ \E name \in OneName :
          /\ db.seq.sessions < MaxOwnerId
          /\ CreateSession(name)
    \/ \E sid \in SessionIds, p \in Paths, z \in Sizes, x \in OneText :
          /\ db.seq.files < MaxFileId
          /\ AddFile(sid, p, z, x, 0)
    \/ \E sid \in SessionIds, q \in Questions, a \in Answers :
          /\ db.seq.chats < MaxChatId
          /\ AddChat(sid, q, a, 0)
    \/ \E fid \in StaleFileIds : DeleteFile(fid)

SpecFiles == Init /\ [][NextFiles]_vars

\* The question-answering page over one session, with uploads.
NextQA ==
    \/ \E p \in Paths : SaveUploadedFile(p)
    \/ \E p \in Paths, z \in Sizes, x \in Documents :
          /\ db.seq.files < MaxFileId
          /\ AddFile(qa.session, p, z, x, 0)
    \/ \E question \in Questions, stream \in Streams :
          /\ db.seq.chats < MaxChatId
          /\ Generate(question, stream)
    \/ ReceiveToken
    \/ EndOfStream
    \/ StreamFails
    \/ ClearStreaming

SpecQA == Init /\ [][NextQA]_vars

\* The question-answering page as src/main.py has it: nothing clears the
\* flag during a turn, and the page handles one interaction at a time.
NextAnswer ==
    \/ Tick
    \/ \E p \in Paths :
          /\ qa.pc = "idle"
          /\ SaveUploadedFile(p)
    \/ \E p \in Paths, z \in Sizes, x \in Documents :
          /\ qa.pc = "idle"
          /\ db.seq.files < MaxFileId
          /\ AddFile(qa.session, p, z, x, 0)
    \/ \E question \in Questions, stream \in Streams :
          /\ db.seq.chats < MaxChatId
          /\ Generate(question, stream)
    \/ ReceiveToken
    \/ EndOfStream
    \/ StreamFails

SpecAnswer == Init /\ [][NextAnswer]_vars

\* Threads calling the store through their cached connections, with resets.
NextStale ==
    \/ Tick
    \/ \E t \in Threads, name \in Names :
          /\ db.seq.sessions < MaxOwnerId
          /\ ThreadCreateSession(t, name)
    \/ \E t \in Threads : ThreadGetStats(t)
    \/ \E t \in Threads : ThreadClearAllData(t)

SpecStale == Init /\ [][NextStale]_vars

\* Threads running session calls and store initialization side by side.
NextThreads ==
    \/ \E t \in Threads, name \in OneName :
          /\ db.seq.sessions < MaxSessionId
          /\ Call(t, "create_session", NoRow, name, "update_all")
    \/ \E t \in Threads, sid \in DOMAIN db.sessions :
          Call(t, "set_active_session", sid, "", "update_all")
    \/ \E t \in Threads, sid \in SessionIds :
          /\ db.seq.sessions < MaxSessionId
          /\ Call(t, "delete_session", sid, "", "delete")
    \/ \E t \in Threads :
          /\ db.seq.sessions < MaxSessionId
          /\ Call(t, "_init_db", NoRow, "", "select")
    \/ \E t \in Threads : UpdateAll(t)
    \/ \E t \in Threads : InsertNew(t)
    \/ \E t \in Threads : UpdateOne(t)
    \/ \E t \in Threads : DeleteRow(t)
    \/ \E t \in Threads : EnsureInTransaction(t)
    \/ \E t \in Threads : InitSelect(t)
    \/ \E t \in Threads : InitInsert(t)
    \/ \E t \in Threads : CommitTransaction(t)
    \/ \E t \in Threads : Busy(t)

SpecThreads == Init /\ [][NextThreads]_vars

\* ---------------------------------------------------------------- claims
Returned(op) == last.op = op /\ ~last.raised

\* C1: after every create_session, set_active_session and delete_session call
\* that returns, exactly one session has is_active = 1.
C1_ExactlyOneActiveAfterCall ==
    (Returned("create_session") \/ Returned("set_active_session")
        \/ Returned("delete_session"))
    => Cardinality(ActiveIds(db)) = 1

\* C2: after delete_session(id) returns True no file and no chat of session id
\* remains, the files and chats of every other session are unchanged, and if
\* the deleted session was the active one an active session exists.
C2_DeleteSessionCascades ==
    [][(last'.op = "delete_session" /\ last'.flag /\ DeleteSession(last'.arg))
       => LET sid == last'.arg
          IN /\ FilesOf(db', sid) = {}
             /\ ChatsOf(db', sid) = {}
             /\ DOMAIN db'.files = DOMAIN db.files \ FilesOf(db, sid)
             /\ DOMAIN db'.chats = DOMAIN db.chats \ ChatsOf(db, sid)
             /\ \A f \in DOMAIN db'.files : db'.files[f] = db.files[f]
             /\ \A c \in DOMAIN db'.chats : db'.chats[c] = db.chats[c]
             /\ (sid \in ActiveIds(db) => ActiveIds(db') # {})]_storeVars

C2_Witness ==
    /\ Returned("delete_session") /\ last.flag
    /\ db.seq.files > 0 /\ db.seq.chats > 0
    /\ DOMAIN db.files \cup DOMAIN db.chats # {}
    /\ Cardinality(DOMAIN db.files) + Cardinality(DOMAIN db.chats) < db.seq.files + db.seq.chats

\* C3: a store call either commits all of its statements or raises and leaves
\* the committed database as it was; add_file and add_chat for a session id
\* that does not exist raise, insert nothing and touch no session.
C3_CommitOrRollback ==
    [][/\ last'.raised => db' = db
       /\ last'.op = "add_file"
          => \A p \in Paths, z \in Sizes, x \in OneText, k \in Faults :
               AddFile(last'.arg, p, z, x, k)
               => LET sid == last'.arg
                  IN IF sid \notin DOMAIN db.sessions \/ k # 0
                     THEN last'.raised
                     ELSE /\ ~last'.raised
                          /\ last'.ret \in DOMAIN db'.files \ DOMAIN db.files
                          /\ db'.files[last'.ret].session_id = sid
                          /\ db'.sessions[sid].last_accessed = now
       /\ last'.op = "add_chat"
          => \A q \in Questions, a \in Answers, k \in Faults :
               AddChat(last'.arg, q, a, k)
               => LET sid == last'.arg
                  IN IF sid \notin DOMAIN db.sessions \/ k # 0
                     THEN last'.raised
                     ELSE /\ ~last'.raised
                          /\ last'.ret \in DOMAIN db'.chats \ DOMAIN db.chats
                          /\ db'.chats[last'.ret].session_id = sid
                          /\ db'.sessions[sid].last_accessed = now]_storeVars

C3_Witness ==
    /\ last.op \in {"add_file", "add_chat"} /\ last.raised
    /\ last.arg \notin DOMAIN db.sessions
    /\ \E i \in DOMAIN db.sessions : db.sessions[i].last_accessed < now
    /\ DOMAIN db.files # {}

\* C4: after clear_all_data() returns True the store holds exactly one
\* session, the active default session, no files and no chats, and get_stats
\* reports 1, 1, 0, 0, 0.
C4_ClearedStoreIsFresh ==
    (Returned("clear_all_data") /\ last.flag)
    => /\ Cardinality(DOMAIN db.sessions) = 1
       /\ \A i \in DOMAIN db.sessions :
            db.sessions[i].is_active = 1 /\ db.sessions[i].session_name = "Default Session"
       /\ DOMAIN db.files = {} /\ DOMAIN db.chats = {}
       /\ get_stats(db) = [total_sessions |-> 1, active_sessions |-> 1, total_files |-> 0,
                           total_size |-> 0, total_chats |-> 0]

C4_Witness == Returned("clear_all_data") /\ last.flag /\ db.schema

\* C5: in every state reachable by public store calls executed one at a time,
\* at most one session has is_active = 1.
C5_AtMostOneActive == Cardinality(ActiveIds(db)) <= 1

C5_Witness ==
    /\ Cardinality(DOMAIN db.sessions) >= 2
    /\ Cardinality(ActiveIds(db)) = 1
    /\ last.op = "set_active_session"

\* C8: set_active_session(id) returns True exactly when session id existed;
\* after True that session is the only active one, its last_accessed is not
\* earlier than before, and the call creates and deletes no session.
C8_SetActiveSession ==
    [][(last'.op = "set_active_session" /\ SetActiveSession(last'.arg))
       => LET sid == last'.arg
          IN /\ ~last'.raised
             /\ last'.flag = (sid \in DOMAIN db.sessions)
             /\ DOMAIN db'.sessions = DOMAIN db.sessions
             /\ last'.flag => /\ ActiveIds(db') = {sid}
                              /\ db'.sessions[sid].last_accessed
                                    >= db.sessions[sid].last_accessed]_storeVars

C8_Witness ==
    /\ Returned("set_active_session") /\ last.flag
    /\ Cardinality(DOMAIN db.sessions) >= 2
    /\ db.sessions[last.arg].last_accessed = now
    /\ \E i \in DOMAIN db.sessions : db.sessions[i].last_accessed < now

\* C9 as stated: for every integer limit, negative ones included,
\* get_all_sessions(limit) returns at most limit rows, ordered by
\* last_accessed descending, each with the live counts of its files and chats.
C9_AtMostLimitRows ==
    (Returned("get_all_sessions"))
    => /\ Len(last.out) <= last.arg
       /\ \A j \in 1..(Len(last.out) - 1) :
            last.out[j].last_accessed >= last.out[j + 1].last_accessed
       /\ \A j \in 1..Len(last.out) :
            /\ last.out[j].file_count = Cardinality(FilesOf(db, last.out[j].id))
            /\ last.out[j].chat_count = Cardinality(ChatsOf(db, last.out[j].id))

\* C9 as amended: for limit >= 0 get_all_sessions(limit) returns the
\* min(limit, number of sessions) most recently accessed sessions, for a
\* negative limit it returns all sessions; the rows are distinct sessions in
\* descending order of last_accessed, each with the live counts of its files
\* and chats.
C9_ListSessions ==
    (Returned("get_all_sessions"))
    => LET out == last.out
           n == Cardinality(DOMAIN db.sessions)
           ids == {out[j].id : j \in 1..Len(out)}
       IN /\ last.arg >= 0 => Len(out) <= last.arg
          /\ (last.arg >= 0 /\ last.arg <= n) => Len(out) = last.arg
          /\ (last.arg < 0 \/ last.arg > n) => Len(out) = n
          /\ ids \subseteq DOMAIN db.sessions
          /\ Cardinality(ids) = Len(out)
          /\ \A j \in 1..(Len(out) - 1) :
               out[j].last_accessed >= out[j + 1].last_accessed
          /\ \A j \in 1..Len(out) :
               /\ out[j].last_accessed = db.sessions[out[j].id].last_accessed
               /\ out[j].file_count = Cardinality(FilesOf(db, out[j].id))
               /\ out[j].chat_count = Cardinality(ChatsOf(db, out[j].id))
          /\ \A i \in DOMAIN db.sessions \ ids : \A j \in 1..Len(out) :
               db.sessions[i].last_accessed <= out[j].last_accessed

C9_WitnessCapped ==
    /\ Returned("get_all_sessions")
    /\ last.arg = 1
    /\ Cardinality(DOMAIN db.sessions) = 2
    /\ Len(last.out) = 1

C9_Witness ==
    /\ Returned("get_all_sessions")
    /\ last.arg < 0
    /\ Len(last.out) = 2
    /\ last.out[1].id > last.out[2].id
    /\ last.out[1].last_accessed > last.out[2].last_accessed
    /\ \E j \in 1..2 : last.out[j].file_count > 0
    /\ \E j \in 1..2 : last.out[j].chat_count > 0

\* Where the k-th text starts in the joined content: after the texts before
\* it and one blank line for each of them.
RECURSIVE C10_Offset(_, _)
C10_Offset(texts, k) ==
    IF k = 1 THEN 0 ELSE C10_Offset(texts, k - 1) + Len(texts[k - 1]) + 2

\* C10: get_session_content(id) is empty when the session has no file with
\* non-null, non-empty content_text; otherwise it is the texts of exactly
\* those files of the session, each once, in some order, with "\n\n" between
\* consecutive texts.
C10_SessionContent ==
    (Returned("get_session_content"))
    => LET out == last.out
           rows == {f \in FilesOf(db, last.arg) :
                       db.files[f].content_text \notin {NULL, <<>>}}
       IN IF rows = {} THEN out = <<>>
          ELSE \E o \in Perms(rows) :
                  LET texts == [j \in 1..Len(o) |-> db.files[o[j]].content_text]
                      n == Len(texts)
                  IN /\ Len(out) = C10_Offset(texts, n) + Len(texts[n])
                     /\ \A k \in 1..n :
                          SubSeq(out, C10_Offset(texts, k) + 1,
                                 C10_Offset(texts, k) + Len(texts[k])) = texts[k]
                     /\ \A k \in 2..n :
                          /\ out[C10_Offset(texts, k) - 1] = NL
                          /\ out[C10_Offset(texts, k)] = NL

C10_Witness ==
    /\ Returned("get_session_content")
    /\ Cardinality(FilesOf(db, last.arg)) = 2
    /\ \A f \in FilesOf(db, last.arg) : db.files[f].content_text \notin {NULL, <<>>}
    /\ last.out = <<"b", "c", NL, NL, "a">>

C10_WitnessEmpty ==
    /\ Returned("get_session_content")
    /\ \E f \in FilesOf(db, last.arg) : db.files[f].content_text = NULL
    /\ \E f \in DOMAIN db.files \ FilesOf(db, last.arg) : db.files[f].content_text = <<"a">>
    /\ last.out = <<>>

\* C6: while threads run create_session, set_active_session on existing ids,
\* delete_session and store initialization side by side, each on its own
\* connection, every committed state has exactly one active session.
C6_OneActiveInEveryCommittedState == Cardinality(ActiveIds(db)) = 1

\* The second half of C6 alone: no interleaving of the check-then-insert
\* repair step commits two active sessions.
C6_NoTwoActiveCommitted == Cardinality(ActiveIds(db)) <= 1

\* C7: a turn whose streaming flag was cleared after at least one fragment
\* had been received, and which ended before the generator signalled its end,
\* persists no chat row; a turn persists a chat row only after the generator
\* has signalled its end.
C7_CancelledTurnNotPersisted ==
    /\ (qa.cancelled /\ ~qa.drained) => qa.saved = NoRow
    /\ qa.saved # NoRow => qa.drained

\* C11: with a clock that never goes back, a successful add_file or add_chat
\* sets the owning session's last_accessed to the current time, which is not
\* below its previous value, in the transaction that inserts the row, and
\* leaves every other session row as it was.
C11_TouchesOwningSession ==
    [][(/\ ~last'.raised
        /\ \/ last'.op = "add_file" /\ db'.seq.files = db.seq.files + 1
           \/ last'.op = "add_chat" /\ db'.seq.chats = db.seq.chats + 1)
       => LET sid == last'.arg
          IN /\ sid \in DOMAIN db.sessions
             /\ DOMAIN db'.sessions = DOMAIN db.sessions
             /\ db'.sessions[sid].last_accessed = now
             /\ db'.sessions[sid].last_accessed >= db.sessions[sid].last_accessed
             /\ db'.sessions[sid].is_active = db.sessions[sid].is_active
             /\ \A i \in DOMAIN db.sessions \ {sid} : db'.sessions[i] = db.sessions[i]
             /\ last'.op = "add_file"
                  => /\ last'.ret \in DOMAIN db'.files \ DOMAIN db.files
                     /\ db'.files[last'.ret].session_id = sid
             /\ last'.op = "add_chat"
                  => /\ last'.ret \in DOMAIN db'.chats \ DOMAIN db.chats
                     /\ db'.chats[last'.ret].session_id = sid]_storeVars

C11_Witness ==
    /\ last.op \in {"add_file", "add_chat"}
    /\ ~last.raised
    /\ last.ret # NoRow
    /\ last.arg = 1
    /\ db.sessions[1].last_accessed = 1
    /\ \E i \in DOMAIN db.sessions : i # 1 /\ db.sessions[i].last_accessed = 0

\* What C12 says of a clear_all_data that returned: it did not raise, it
\* returned False when a step failed, and an uploaded file that could not be
\* removed did not keep it from returning True.
C12_NeverRaises ==
    (last.op = "clear_all_data")
    => /\ ~last.raised
       /\ last.text # "none" => ~last.flag
       /\ (last.text = "none" /\ db.schema) => last.flag

\* C12: clear_all_data never raises, and after it has returned False the next
\* store call works.
C12_StoreWorksAfterFailure ==
    (last.op = "clear_all_data")
    => /\ ~last.raised
       /\ ~last.flag
            => /\ \A name \in Names : ~create_session(db, name, now).raised
               /\ ~_ensure_active_session(db, now).raised

\* C13: a chat row that exists before and after a call is the same row; chat
\* rows disappear only in delete_session_chats, delete_session and
\* clear_all_data; delete_session_chats(s) removes exactly the chats of
\* session s, returns how many they were, and leaves sessions and files as
\* they were.
C13_ChatsAreImmutable ==
    [][/\ \A c \in DOMAIN db.chats \cap DOMAIN db'.chats : db'.chats[c] = db.chats[c]
       /\ (DOMAIN db.chats \ DOMAIN db'.chats # {})
            => last'.op \in {"delete_session_chats", "delete_session", "clear_all_data"}
       /\ (last'.op = "delete_session_chats" /\ ~last'.raised
             /\ DeleteSessionChats(last'.arg))
            => /\ DOMAIN db'.chats = DOMAIN db.chats \ ChatsOf(db, last'.arg)
               /\ last'.ret = Cardinality(ChatsOf(db, last'.arg))
               /\ db'.sessions = db.sessions
               /\ db'.files = db.files
               /\ db'.seq = db.seq]_storeVars

C13_Witness ==
    /\ Returned("delete_session_chats")
    /\ last.ret = 1
    /\ DOMAIN db.chats = {}
    /\ DOMAIN db.files # {}
    /\ Cardinality(DOMAIN db.sessions) >= 2

\* C14: delete_file(id) returns True exactly when a file row with that id
\* existed; it removes that row only and leaves every session row, every
\* chat row, every other file row and every file on disk as it was; for an id
\* without a row it returns False and changes nothing.
C14_DeleteFile ==
    [][(last'.op = "delete_file" /\ DeleteFile(last'.arg))
       => LET fid == last'.arg
          IN /\ ~last'.raised
             /\ last'.flag = (fid \in DOMAIN db.files)
             /\ DOMAIN db'.files = DOMAIN db.files \ {fid}
             /\ \A f \in DOMAIN db'.files : db'.files[f] = db.files[f]
             /\ db'.sessions = db.sessions
             /\ db'.chats = db.chats
             /\ disk' = disk
             /\ fid \notin DOMAIN db.files => db' = db]_storeVars

C14_Witness ==
    /\ Returned("delete_file")
    /\ last.flag
    /\ DOMAIN db.files = {}
    /\ disk = Paths
    /\ DOMAIN db.chats # {}
    /\ Cardinality(DOMAIN db.sessions) >= 2

C14_WitnessNoRow ==
    /\ Returned("delete_file")
    /\ ~last.flag
    /\ last.arg \notin DOMAIN db.files
    /\ DOMAIN db.files # {}

\* The fragments of a turn, concatenated.
RECURSIVE C15_Concat(_)
C15_Concat(fragments) ==
    IF fragments = <<>> THEN <<>> ELSE Head(fragments) \o C15_Concat(Tail(fragments))

\* C15: the question-answering flow adds a chat row only at the end of a turn
\* whose session content has at least 10 characters once stripped and whose
\* concatenated answer is non-empty; it then adds exactly one row, in the
\* current session, with the question and the concatenation of all fragments;
\* a turn whose generation raised or yielded no fragment adds no row, and the
\* streaming flag is False after every turn.
C15_PersistsOneTurn ==
    [][/\ (DOMAIN db'.chats # DOMAIN db.chats)
            => /\ qa.pc = "streaming" /\ qa'.pc = "idle"
               /\ qa'.drained
               /\ \E session_content \in get_session_content(db, qa.session) :
                     Len(strip(session_content)) >= 10
               /\ C15_Concat(qa'.yielded) # <<>>
               /\ qa'.saved \notin DOMAIN db.chats
               /\ DOMAIN db'.chats = DOMAIN db.chats \cup {qa'.saved}
               /\ db'.chats[qa'.saved].session_id = qa.session
               /\ db'.chats[qa'.saved].question = qa.question
               /\ db'.chats[qa'.saved].answer = C15_Concat(qa'.yielded)
               /\ \A c \in DOMAIN db.chats : db'.chats[c] = db.chats[c]
       /\ (qa.pc = "streaming" /\ qa'.pc = "idle")
            => /\ ~qa'.streaming
               /\ (~qa'.drained \/ qa'.received = 0) => db'.chats = db.chats]_vars

C15_Witness ==
    /\ qa.pc = "idle"
    /\ qa.saved \in DOMAIN db.chats
    /\ qa.received = 2
    /\ db.chats[qa.saved].answer = <<"a", "b">>
    /\ db.chats[qa.saved].question = "q"
    /\ ~qa.streaming

C15_WitnessFailed ==
    /\ qa.pc = "idle"
    /\ qa.received = 1
    /\ ~qa.drained
    /\ DOMAIN db.chats = {}
    /\ ~qa.streaming

\* C16: in every reachable state every file row and every chat row belongs
\* to a session that exists.
C16_ReferentialIntegrity ==
    /\ \A f \in DOMAIN db.files : db.files[f].session_id \in DOMAIN db.sessions
    /\ \A c \in DOMAIN db.chats : db.chats[c].session_id \in DOMAIN db.sessions

C16_Witness ==
    /\ last.op = "add_file"
    /\ last.raised
    /\ last.arg \notin DOMAIN db.sessions
    /\ DOMAIN db.files = {}
    /\ \E c \in DOMAIN db.chats : db.chats[c].session_id = 2
    /\ 1 \notin DOMAIN db.sessions

\* C17: whichever thread calls the store, a read returns what the database
\* at DB_FILE holds and a write lands in it, also after another thread's
\* clear_all_data has returned True.
C17_EveryThreadOnNewDatabase ==
    /\ (last.op = "get_stats") => /\ ~last.raised
                                  /\ last.out = <<get_stats(db)>>
    /\ (last.op = "create_session")
         => /\ ~last.raised
            /\ last.ret \in DOMAIN db.sessions
            /\ db.sessions[last.ret].is_active = 1

\* The sessions a step inserted, and whether they are one active session
\* named 'Default Session'.
C18_Inserted == DOMAIN db'.sessions \ DOMAIN db.sessions

C18_OneDefaultInserted ==
    /\ Cardinality(C18_Inserted) = 1
    /\ \A n \in C18_Inserted : /\ db'.sessions[n].session_name = "Default Session"
                               /\ db'.sessions[n].is_active = 1

\* What C18 says of every session other than the deleted one: it survives,
\* with its name and last_accessed.
C18_OthersSurvive ==
    \A i \in DOMAIN db.sessions \ {last'.arg} :
        /\ i \in DOMAIN db'.sessions
        /\ db'.sessions[i].session_name = db.sessions[i].session_name
        /\ db'.sessions[i].last_accessed = db.sessions[i].last_accessed

\* C18 as stated: deleting the active session leaves the surviving sessions
\* inactive and inserts one active 'Default Session'; deleting a non-active
\* session inserts nothing and keeps the same session active; delete_session
\* on an id without a row returns False and changes nothing.
C18_DeleteSessionFallback ==
    [][(last'.op = "delete_session" /\ DeleteSession(last'.arg))
       => LET sid == last'.arg
          IN IF sid \notin DOMAIN db.sessions
             THEN ~last'.flag /\ db' = db
             ELSE /\ last'.flag
                  /\ sid \notin DOMAIN db'.sessions
                  /\ C18_OthersSurvive
                  /\ IF db.sessions[sid].is_active = 1
                     THEN /\ C18_OneDefaultInserted
                          /\ ActiveIds(db') = C18_Inserted
                     ELSE /\ C18_Inserted = {}
                          /\ ActiveIds(db') = ActiveIds(db)]_storeVars

\* What delete_session does where C18 fails: deleting a non-active session
\* inserts nothing and keeps the same session active only when a session is
\* active; when none is (after set_active_session on an id without a row),
\* it inserts one active 'Default Session', as deleting the active one does.
C18_DeleteSessionRepairs ==
    [][(last'.op = "delete_session" /\ DeleteSession(last'.arg))
       => LET sid == last'.arg
          IN IF sid \notin DOMAIN db.sessions
             THEN ~last'.flag /\ db' = db
             ELSE /\ last'.flag
                  /\ sid \notin DOMAIN db'.sessions
                  /\ C18_OthersSurvive
                  /\ IF ActiveIds(db) \subseteq {sid}
                     THEN /\ C18_OneDefaultInserted
                          /\ ActiveIds(db') = C18_Inserted
                     ELSE /\ C18_Inserted = {}
                          /\ ActiveIds(db') = ActiveIds(db)]_storeVars

C18_Witness ==
    /\ Returned("delete_session")
    /\ last.flag
    /\ last.arg \notin DOMAIN db.sessions
    /\ Cardinality(DOMAIN db.sessions) >= 2
    /\ ActiveIds(db) = {db.seq.sessions}
    /\ db.sessions[db.seq.sessions].session_name = "Default Session"

TypeOK == db.schema \in BOOLEAN
====
